---------------------------- MODULE Spec2Model ----------------------------
(***************************************************************************)
(* State-machine model of the SnakeGame class of src/贪吃蛇/game.js: the   *)
(* tick handler update(), the lifecycle commands startGame / pauseGame /   *)
(* resumeGame / restartGame, gameOver, setDifficulty and changeDirection,  *)
(* together with the browser's interval timers and the localStorage item   *)
(* the class uses.  A cell and a direction are pairs <<x, y>>.             *)
(*                                                                         *)
(* The module also models the to-do page of src/unnamed/part_000: its task *)
(* list, the localStorage item it saves the list in, the clock its task    *)
(* ids are read from and the timeouts that carry out its removals.         *)
(***************************************************************************)
EXTENDS Integers, Sequences, FiniteSets, TLC

VARIABLES
    snake,          \* this.snake: sequence of cells, head first
    food,           \* this.food
    direction,      \* this.direction (current)
    nextDirection,  \* this.nextDirection (pending)
    score,          \* this.score
    highScore,      \* this.highScore
    stored,         \* localStorage item 'snakeHighScore' (NoItem when absent)
    gameLoop,       \* this.gameLoop: the handle last returned by setInterval, or NoHandle
    timers,         \* the browser's active intervals: handle |-> interval in ms
    gameSpeed,      \* this.gameSpeed
    isGameRunning,  \* this.isGameRunning
    isPaused,       \* this.isPaused
    overlay,        \* what #game-overlay shows: "ready", "hidden", "paused", "gameover"
    ticks,          \* number of update() calls since the last resetGame()
    turns,          \* number of accepted changeDirection() calls since the last update() or resetGame()
    sounds,         \* the playSound(type) calls since the last resetGame(), in order
    writes,         \* number of localStorage.setItem calls since the last resetGame()
    draws,          \* number of draw() calls since the last resetGame()
    foods,          \* number of generateFood() calls since the last resetGame(), its own included
    constructed,    \* new SnakeGame() returned: the handlers of bindEvents() are bound
    pc,             \* position inside a generateFood() call followed step by step
    newFood,        \* the local newFood of that call
    tasks,          \* to-do page: the array tasks, each task [id, completed, isEditing, date]
    storedTasks,    \* to-do page: localStorage item 'todo_tasks' (NoTasks when absent)
    now,            \* what Date.now() returns, in ms
    timeouts,       \* to-do page: the pending setTimeout callbacks that remove tasks, oldest first
    currentActionDate,  \* to-do page: what the confirm dialog is open for, or NoAction
    requested       \* ids of the tasks whose removal was left to a timeout since the page was loaded

\* the variables of the game
gameVars == <<snake, food, direction, nextDirection, score, highScore, stored,
              gameLoop, timers, gameSpeed, isGameRunning, isPaused, overlay,
              ticks, turns, sounds, writes, draws, foods, constructed, pc, newFood>>

\* the variables of the to-do page
todoVars == <<tasks, storedTasks, now, timeouts, currentActionDate, requested>>

vars == <<snake, food, direction, nextDirection, score, highScore, stored,
          gameLoop, timers, gameSpeed, isGameRunning, isPaused, overlay,
          ticks, turns, sounds, writes, draws, foods, constructed, pc, newFood,
          tasks, storedTasks, now, timeouts, currentActionDate, requested>>

----------------------------------------------------------------------------
(* Program constants *)

gridSize == 20
canvasWidth == 400
tileCount == canvasWidth \div gridSize
scoreIncrement == 10

easySpeed == 200
mediumSpeed == 150
hardSpeed == 100

NoHandle == 0
NoItem == -1

InitialSnake == << <<10, 10>>, <<9, 10>>, <<8, 10>> >>
InitialDirection == <<1, 0>>

Directions == { <<0, -1>>, <<0, 1>>, <<-1, 0>>, <<1, 0>> }
Difficulties == {"easy", "medium", "hard"}

----------------------------------------------------------------------------
(* Bounds of the exploration *)

\* update() calls explored per game
MaxTicks == 11
\* tasks in the list of the to-do page
MaxTasks == 2
\* pending removal timeouts of the to-do page
MaxTimeouts == 2
\* single milliseconds the clock is advanced by within one removal delay
MaxMs == 1
\* removal delays the clock is advanced by
MaxDelays == 1
\* direction requests are explored before the first TurnTicks update() calls of a game
TurnTicks == 4
\* accepted direction requests explored between two update() calls
MaxTurns == 2
\* the outcomes of Math.random() explored by generateFood(): one cell under
\* the initial snake (a rejected draw), two cells next to its head and one
\* cell no explored game can reach (so a free cell always remains to draw)
DrawCells == { <<10, 10>>, <<11, 10>>, <<11, 11>>, <<0, 0>> }

----------------------------------------------------------------------------
(* Helpers *)

Neg(d) == <<0 - d[1], 0 - d[2]>>

\* isSnakeOnPosition comparing with the head only
isSnakeOnPosition_HeadOnly(s, c) == s[1][1] = c[1] /\ s[1][2] = c[2]

\* isSnakeOnPosition skipping the head
isSnakeOnPosition_IgnoresHead(s, c) ==
    \E i \in 2..Len(s) : s[i][1] = c[1] /\ s[i][2] = c[2]

\* isSnakeOnPosition(x, y), on snake s
isSnakeOnPosition(s, c) == \E i \in 1..Len(s) : s[i][1] = c[1] /\ s[i][2] = c[2]

\* checkCollision with the bounds test off by one (> for >=)
checkCollision_OffByOne(head, s) ==
    \/ head[1] < 0 \/ head[1] > tileCount \/ head[2] < 0 \/ head[2] > tileCount
    \/ \E i \in 1..Len(s) : head[1] = s[i][1] /\ head[2] = s[i][2]

\* checkCollision with the scan stopping before the tail (i < length - 1)
checkCollision_SkipTail(head, s) ==
    \/ head[1] < 0 \/ head[1] >= tileCount \/ head[2] < 0 \/ head[2] >= tileCount
    \/ \E i \in 1..(Len(s) - 1) : head[1] = s[i][1] /\ head[2] = s[i][2]

\* checkCollision without the scan of the snake
checkCollision_BoundsOnly(head, s) ==
    head[1] < 0 \/ head[1] >= tileCount \/ head[2] < 0 \/ head[2] >= tileCount

\* checkCollision(head), on snake s
checkCollision(head, s) ==
    \/ head[1] < 0 \/ head[1] >= tileCount \/ head[2] < 0 \/ head[2] >= tileCount
    \/ \E i \in 1..Len(s) : head[1] = s[i][1] /\ head[2] = s[i][2]

\* generateFood without the retry: the first draw is kept
generateFood_NoRetry(s) == DrawCells

\* the cells generateFood() can return for snake s: a draw that is not on s
generateFood(s) == { c \in DrawCells : ~isSnakeOnPosition(s, c) }

\* clearInterval(h): h stops firing; clearing an unknown or cancelled handle does nothing
clearInterval(ts, h) == [k \in (DOMAIN ts) \ {h} |-> ts[k]]

\* the handle setInterval returns.  Handles are opaque: the class only stores
\* one in gameLoop (overwriting the previous one in the same statement) and
\* passes it to clearInterval, so the least handle that is not active stands
\* for the fresh one the browser returns.
newHandle(ts) == CHOOSE h \in 1..(Cardinality(DOMAIN ts) + 1) : h \notin DOMAIN ts

\* setInterval(callback, ms)
setInterval(ts, ms) == (newHandle(ts) :> ms) @@ ts

\* the food test comparing the x coordinate only
eatsFood_XOnly(head, f) == head[1] = f[1]

\* the test of update() for the head being on the food
eatsFood(head, f) == head[1] = f[1] /\ head[2] = f[2]

\* update() with the tail removed on every move, also when eating
moved_AlwaysPop(head, s, f) == <<head>> \o SubSeq(s, 1, Len(s) - 1)

\* update() with the tail never removed
moved_NeverPop(head, s, f) == <<head>> \o s

\* the snake update() leaves after a move without collision: unshift(head),
\* then pop() unless head is the food cell f
moved(head, s, f) ==
    IF eatsFood(head, f)
    THEN <<head>> \o s
    ELSE <<head>> \o SubSeq(s, 1, Len(s) - 1)

\* playSound(type), recorded on the log of calls.  The early return of
\* playSound (sound disabled, no audio context) only mutes the tone.
playSound(log, type) == Append(log, type)

\* the switch of setDifficulty
speedOf(difficulty) ==
    CASE difficulty = "easy" -> easySpeed
      [] difficulty = "medium" -> mediumSpeed
      [] difficulty = "hard" -> hardSpeed

\* the lifecycle state the flags and the overlay encode
Lifecycle ==
    IF isGameRunning
    THEN (IF isPaused THEN "Paused" ELSE "Running")
    ELSE (IF overlay = "gameover" THEN "GameOver" ELSE "Idle")

----------------------------------------------------------------------------
(* The to-do page: constants and first load *)

\* the timeout of deleteTask() and of the confirmed clear-all, in ms
removeDelay == 300
\* the item 'todo_tasks' is a sequence: empty when getItem returns null,
\* otherwise holding the one array that was saved
NoTasks == << >>

\* saveTasks(): setItem('todo_tasks', JSON.stringify(ts))
saveTasks(ts) == <<ts>>
\* currentActionDate = null
NoAction == -1
\* currentActionDate = 'all'
AllTasks == -2
\* ms in the day toISOString() cuts the date from
msPerDay == 86400000

\* getCurrentDate(): the UTC day of the clock
getCurrentDate(t) == t \div msPerDay

\* loadTasks(): JSON.parse gives back the array JSON.stringify was given (ids
\* are strings of digits, the flags booleans; a flag that is undefined is
\* left out and read back undefined, which every test of the page takes as false)
loadTasks(item) == IF item = NoTasks THEN << >> ELSE item[1]

\* init() on a page loaded with nothing stored
todoInit ==
    /\ tasks = loadTasks(NoTasks)
    /\ storedTasks = NoTasks
    /\ now = 0
    /\ timeouts = << >>
    /\ currentActionDate = NoAction
    /\ requested = {}

----------------------------------------------------------------------------
(* Construction: constructor() followed by init() *)

Init ==
    /\ stored = NoItem
    /\ highScore = 0
    /\ snake = InitialSnake
    /\ direction = InitialDirection
    /\ nextDirection = InitialDirection
    /\ score = 0
    /\ food \in generateFood(InitialSnake)
    /\ gameLoop = NoHandle
    /\ timers = << >>
    /\ gameSpeed = mediumSpeed
    /\ isGameRunning = FALSE
    /\ isPaused = FALSE
    /\ overlay = "ready"
    /\ ticks = 0
    /\ turns = 0
    /\ sounds = << >>
    /\ writes = 0
    /\ draws = 1
    /\ foods = 1
    /\ constructed = TRUE
    /\ pc = "idle"
    /\ newFood = << >>
    /\ todoInit

----------------------------------------------------------------------------
(* Operations *)

\* resetGame() without the reset of nextDirection
resetGame_KeepPending ==
    /\ snake' = InitialSnake
    /\ direction' = InitialDirection
    /\ nextDirection' = nextDirection
    /\ score' = 0
    /\ food' \in generateFood(InitialSnake)
    /\ ticks' = 0
    /\ turns' = 0
    /\ writes' = 0
    /\ draws' = 0
    /\ foods' = 1

resetGame ==
    /\ snake' = InitialSnake
    /\ direction' = InitialDirection
    /\ nextDirection' = InitialDirection
    /\ score' = 0
    /\ food' \in generateFood(InitialSnake)
    /\ ticks' = 0
    /\ turns' = 0
    /\ writes' = 0
    /\ draws' = 0
    /\ foods' = 1

\* the body of startGame() past its guard, with ts the active intervals
startBody(ts) ==
    /\ resetGame
    /\ isGameRunning' = TRUE
    /\ isPaused' = FALSE
    /\ overlay' = "hidden"
    /\ gameLoop' = newHandle(ts)
    /\ timers' = setInterval(ts, gameSpeed)
    /\ sounds' = playSound(<< >>, "start")
    /\ UNCHANGED <<highScore, stored, gameSpeed>>

\* startGame() without its guard
startGame_NoGuard == startBody(timers)

startGame ==
    IF isGameRunning
    THEN UNCHANGED vars
    ELSE startBody(timers)

\* pauseGame() without clearInterval
pauseGame_NoClear ==
    IF ~isGameRunning \/ isPaused
    THEN UNCHANGED vars
    ELSE /\ isPaused' = TRUE
         /\ overlay' = "paused"
         /\ UNCHANGED <<snake, food, direction, nextDirection, score, highScore,
                        stored, gameLoop, timers, gameSpeed, isGameRunning, ticks, turns,
                        sounds, writes, draws, foods>>

\* pauseGame() with the guard testing isPaused only
pauseGame_NoRunningGuard ==
    IF isPaused
    THEN UNCHANGED vars
    ELSE /\ isPaused' = TRUE
         /\ timers' = clearInterval(timers, gameLoop)
         /\ overlay' = "paused"
         /\ UNCHANGED <<snake, food, direction, nextDirection, score, highScore,
                        stored, gameLoop, gameSpeed, isGameRunning, ticks, turns,
                        sounds, writes, draws, foods>>

pauseGame ==
    IF ~isGameRunning \/ isPaused
    THEN UNCHANGED vars
    ELSE /\ isPaused' = TRUE
         /\ timers' = clearInterval(timers, gameLoop)
         /\ overlay' = "paused"
         /\ UNCHANGED <<snake, food, direction, nextDirection, score, highScore,
                        stored, gameLoop, gameSpeed, isGameRunning, ticks, turns,
                        sounds, writes, draws, foods>>

\* resumeGame() without its guard
resumeGame_NoGuard ==
    /\ isPaused' = FALSE
    /\ overlay' = "hidden"
    /\ gameLoop' = newHandle(timers)
    /\ timers' = setInterval(timers, gameSpeed)
    /\ UNCHANGED <<snake, food, direction, nextDirection, score, highScore,
                   stored, gameSpeed, isGameRunning, ticks, turns, sounds, writes, draws, foods>>

\* resumeGame() without the new setInterval
resumeGame_NoRearm ==
    IF ~isGameRunning \/ ~isPaused
    THEN UNCHANGED vars
    ELSE /\ isPaused' = FALSE
         /\ overlay' = "hidden"
         /\ UNCHANGED <<snake, food, direction, nextDirection, score, highScore,
                        stored, gameLoop, timers, gameSpeed, isGameRunning, ticks,
                        turns, sounds, writes, draws, foods>>

\* resumeGame() calling playSound('start') as startGame() does
resumeGame_PlaysStart ==
    IF ~isGameRunning \/ ~isPaused
    THEN UNCHANGED vars
    ELSE /\ isPaused' = FALSE
         /\ overlay' = "hidden"
         /\ gameLoop' = newHandle(timers)
         /\ timers' = setInterval(timers, gameSpeed)
         /\ sounds' = playSound(sounds, "start")
         /\ UNCHANGED <<snake, food, direction, nextDirection, score, highScore,
                        stored, gameSpeed, isGameRunning, ticks, turns, writes,
                        draws, foods, constructed, pc, newFood>>

resumeGame ==
    IF ~isGameRunning \/ ~isPaused
    THEN UNCHANGED vars
    ELSE /\ isPaused' = FALSE
         /\ overlay' = "hidden"
         /\ gameLoop' = newHandle(timers)
         /\ timers' = setInterval(timers, gameSpeed)
         /\ UNCHANGED <<snake, food, direction, nextDirection, score, highScore,
                        stored, gameSpeed, isGameRunning, ticks, turns,
                        sounds, writes, draws, foods>>

\* restartGame() with a stopGame() that does not clear the interval
restartGame_NoClear == startBody(timers)

\* restartGame() with a stopGame() that records the score as gameOver() does
restartGame_SavesHighScore ==
    /\ resetGame
    /\ isGameRunning' = TRUE
    /\ isPaused' = FALSE
    /\ overlay' = "hidden"
    /\ gameLoop' = newHandle(clearInterval(timers, gameLoop))
    /\ timers' = setInterval(clearInterval(timers, gameLoop), gameSpeed)
    /\ sounds' = playSound(<< >>, "start")
    /\ IF score > highScore
       THEN highScore' = score /\ stored' = score
       ELSE UNCHANGED <<highScore, stored>>
    /\ UNCHANGED gameSpeed

\* stopGame() then startGame(): stopGame() clears isGameRunning, so the guard
\* of startGame() passes
restartGame == startBody(clearInterval(timers, gameLoop))

\* gameOver() with the record test score >= highScore
gameOver_GreaterEq ==
    /\ isGameRunning' = FALSE
    /\ isPaused' = FALSE
    /\ timers' = clearInterval(timers, gameLoop)
    /\ sounds' = playSound(sounds, "gameover")
    /\ IF score >= highScore
       THEN highScore' = score /\ stored' = score /\ writes' = writes + 1
       ELSE UNCHANGED <<highScore, stored, writes>>
    /\ overlay' = "gameover"

\* gameOver() assigning the new high score without localStorage.setItem
gameOver_NoPersist ==
    /\ isGameRunning' = FALSE
    /\ isPaused' = FALSE
    /\ timers' = clearInterval(timers, gameLoop)
    /\ sounds' = playSound(sounds, "gameover")
    /\ IF score > highScore
       THEN highScore' = score /\ UNCHANGED <<stored, writes>>
       ELSE UNCHANGED <<highScore, stored, writes>>
    /\ overlay' = "gameover"

\* gameOver(), called by update(): stopGame(), playSound('gameover'), the
\* high-score update, the overlay.  setItem stores the decimal string of the
\* score, which parseInt reads back as the same number; the call is taken to
\* return normally.
gameOver ==
    /\ isGameRunning' = FALSE
    /\ isPaused' = FALSE
    /\ timers' = clearInterval(timers, gameLoop)
    /\ sounds' = playSound(sounds, "gameover")
    /\ IF score > highScore
       THEN highScore' = score /\ stored' = score /\ writes' = writes + 1
       ELSE UNCHANGED <<highScore, stored, writes>>
    /\ overlay' = "gameover"

\* update() calling generateFood() after every move
update_AlwaysNewFood ==
    LET head == <<snake[1][1] + nextDirection[1], snake[1][2] + nextDirection[2]>> IN
    /\ direction' = nextDirection
    /\ ticks' = ticks + 1
    /\ turns' = 0
    /\ IF checkCollision(head, snake)
       THEN /\ gameOver
            /\ UNCHANGED <<snake, food, score, nextDirection, gameLoop, gameSpeed,
                           draws, foods>>
       ELSE /\ IF eatsFood(head, food)
               THEN /\ snake' = moved(head, snake, food)
                    /\ score' = score + scoreIncrement
                    /\ sounds' = playSound(sounds, "eat")
               ELSE /\ snake' = moved(head, snake, food)
                    /\ UNCHANGED <<score, sounds>>
            /\ food' \in generateFood(moved(head, snake, food))
            /\ foods' = foods + 1
            /\ draws' = draws + 1
            /\ UNCHANGED <<nextDirection, highScore, stored, gameLoop, timers,
                           gameSpeed, isGameRunning, isPaused, overlay, writes>>

update ==
    LET head == <<snake[1][1] + nextDirection[1], snake[1][2] + nextDirection[2]>> IN
    /\ direction' = nextDirection
    /\ ticks' = ticks + 1
    /\ turns' = 0
    /\ IF checkCollision(head, snake)
       THEN /\ gameOver
            /\ UNCHANGED <<snake, food, score, nextDirection, gameLoop, gameSpeed,
                           draws, foods>>
       ELSE /\ IF eatsFood(head, food)
               THEN /\ snake' = moved(head, snake, food)
                    /\ score' = score + scoreIncrement
                    /\ sounds' = playSound(sounds, "eat")
                    /\ food' \in generateFood(moved(head, snake, food))
                    /\ foods' = foods + 1
               ELSE /\ snake' = moved(head, snake, food)
                    /\ UNCHANGED <<food, score, sounds, foods>>
            /\ draws' = draws + 1
            /\ UNCHANGED <<nextDirection, highScore, stored, gameLoop, timers,
                           gameSpeed, isGameRunning, isPaused, overlay, writes>>

\* a handler of bindEvents() or the interval callback runs: none of them
\* exists unless the constructor returned, and none is inside generateFood()
\* when it starts or returns
Bound ==
    /\ constructed
    /\ UNCHANGED <<constructed, pc, newFood>>
    /\ UNCHANGED todoVars

\* an active interval fires its callback, () => this.update()
Tick ==
    /\ Bound
    /\ ticks < MaxTicks
    /\ \E h \in DOMAIN timers : update

\* setDifficulty() without clearInterval before the new setInterval
setDifficulty_NoClear(difficulty) ==
    /\ gameSpeed' = speedOf(difficulty)
    /\ IF isGameRunning /\ ~isPaused
       THEN /\ gameLoop' = newHandle(timers)
            /\ timers' = setInterval(timers, speedOf(difficulty))
       ELSE UNCHANGED <<gameLoop, timers>>
    /\ UNCHANGED <<snake, food, direction, nextDirection, score, highScore, stored,
                   isGameRunning, isPaused, overlay, ticks, turns, sounds, writes, draws, foods>>

\* setDifficulty() without the restart of the interval
setDifficulty_NoRearm(difficulty) ==
    /\ gameSpeed' = speedOf(difficulty)
    /\ UNCHANGED <<snake, food, direction, nextDirection, score, highScore, stored,
                   gameLoop, timers, isGameRunning, isPaused, overlay, ticks, turns,
                   sounds, writes, draws, foods>>

setDifficulty(difficulty) ==
    /\ gameSpeed' = speedOf(difficulty)
    /\ IF isGameRunning /\ ~isPaused
       THEN /\ gameLoop' = newHandle(clearInterval(timers, gameLoop))
            /\ timers' = setInterval(clearInterval(timers, gameLoop), speedOf(difficulty))
       ELSE UNCHANGED <<gameLoop, timers>>
    /\ UNCHANGED <<snake, food, direction, nextDirection, score, highScore, stored,
                   isGameRunning, isPaused, overlay, ticks, turns, sounds, writes, draws, foods>>

\* the guard rejecting only the exact reversal of the current direction
rejects_OnlyReversal(newDirection) == newDirection = Neg(direction)

\* the guard compared against the pending direction instead of the current one
rejects_AgainstPending(newDirection) ==
    \/ (newDirection[1] # 0 /\ nextDirection[1] # 0)
    \/ (newDirection[2] # 0 /\ nextDirection[2] # 0)

\* the two early returns of changeDirection()
rejects(newDirection) ==
    \/ (newDirection[1] # 0 /\ direction[1] # 0)
    \/ (newDirection[2] # 0 /\ direction[2] # 0)

\* changeDirection() assigning this.direction as well
changeDirection_Immediate(newDirection) ==
    IF rejects(newDirection)
    THEN UNCHANGED vars
    ELSE /\ ticks < TurnTicks
         /\ turns < MaxTurns
         /\ nextDirection' = newDirection
         /\ direction' = newDirection
         /\ turns' = turns + 1
         /\ UNCHANGED <<snake, food, score, highScore, stored, gameLoop,
                        timers, gameSpeed, isGameRunning, isPaused, overlay, ticks,
                        sounds, writes, draws, foods>>

\* changeDirection() adding the proposal to the pending direction
changeDirection_Accumulate(newDirection) ==
    IF rejects(newDirection)
    THEN UNCHANGED vars
    ELSE /\ ticks < TurnTicks
         /\ turns < MaxTurns
         /\ nextDirection' = <<nextDirection[1] + newDirection[1],
                               nextDirection[2] + newDirection[2]>>
         /\ turns' = turns + 1
         /\ UNCHANGED <<snake, food, direction, score, highScore, stored, gameLoop,
                        timers, gameSpeed, isGameRunning, isPaused, overlay, ticks,
                        sounds, writes, draws, foods>>

changeDirection(newDirection) ==
    IF rejects(newDirection)
    THEN UNCHANGED vars
    ELSE /\ ticks < TurnTicks
         /\ turns < MaxTurns
         /\ nextDirection' = newDirection
         /\ turns' = turns + 1
         /\ UNCHANGED <<snake, food, direction, score, highScore, stored, gameLoop,
                        timers, gameSpeed, isGameRunning, isPaused, overlay, ticks,
                        sounds, writes, draws, foods>>

\* the keys the keydown handler acts on; w, s, a, d and their capitals are
\* further names of the four arrows
ArrowKeys == {"ArrowUp", "ArrowDown", "ArrowLeft", "ArrowRight"}
Keys == ArrowKeys \cup {" ", "Enter"}

\* the direction a case of the switch passes to changeDirection()
keyDirection(key) ==
    CASE key = "ArrowUp" -> <<0, -1>>
      [] key = "ArrowDown" -> <<0, 1>>
      [] key = "ArrowLeft" -> <<-1, 0>>
      [] key = "ArrowRight" -> <<1, 0>>

\* the keydown handler without its first test: the switch runs in every state
keydown_NoGuard(key) ==
    IF key \in ArrowKeys THEN changeDirection(keyDirection(key))
    ELSE IF key = " " THEN pauseGame
    ELSE UNCHANGED vars

\* the keydown handler of bindEvents()
keydown(key) ==
    IF ~isGameRunning \/ isPaused
    THEN IF key = " " \/ key = "Enter"
         THEN IF isPaused THEN resumeGame
              ELSE IF ~isGameRunning THEN startGame
              ELSE UNCHANGED vars
         ELSE UNCHANGED vars
    ELSE IF key \in ArrowKeys THEN changeDirection(keyDirection(key))
         ELSE IF key = " " THEN pauseGame
         ELSE UNCHANGED vars

SetDifficulty == Bound /\ \E difficulty \in Difficulties : setDifficulty(difficulty)
KeyDown == Bound /\ \E key \in Keys : keydown(key)
ChangeDirection == Bound /\ \E newDirection \in Directions : changeDirection(newDirection)
StartGame == Bound /\ startGame
PauseGame == Bound /\ pauseGame
ResumeGame == Bound /\ resumeGame
RestartGame == Bound /\ restartGame

Next ==
    \/ StartGame
    \/ PauseGame
    \/ ResumeGame
    \/ RestartGame
    \/ Tick
    \/ SetDifficulty
    \/ ChangeDirection
    \/ KeyDown

Spec == Init /\ [][Next]_vars

----------------------------------------------------------------------------
(* Construction over the contents of localStorage *)

\* getItem('snakeHighScore') returns a string that parseInt turns into NaN
Unparsable == -2
\* localStorage.getItem throws (storage denied to the page)
Unavailable == -3

\* the contents of the item when the page loads
StoredItems == {NoItem, Unparsable, Unavailable, scoreIncrement}

\* parseInt(localStorage.getItem('snakeHighScore')) || 0, when getItem returns:
\* null and an unparsable string give NaN, NaN and 0 are falsy
readHighScore(item) ==
    IF item = NoItem \/ item = Unparsable \/ item = 0 THEN 0 ELSE item

\* new SnakeGame() for each content of the item.  When getItem throws, the
\* exception leaves the constructor at the assignment of highScore: the fields
\* assigned before it keep their first values, init() is not called, no
\* handler is bound and no object is returned; the variables of the fields
\* that were never assigned hold the values the constructor would have given.
InitStore ==
    /\ stored \in StoredItems
    /\ constructed = (stored # Unavailable)
    /\ IF stored # Unavailable
       THEN /\ highScore = readHighScore(stored)
            /\ snake = InitialSnake
            /\ direction = InitialDirection
            /\ nextDirection = InitialDirection
            /\ food \in generateFood(InitialSnake)
            /\ draws = 1
            /\ foods = 1
       ELSE /\ highScore = 0
            /\ snake = << >>
            /\ direction = <<0, 0>>
            /\ nextDirection = <<0, 0>>
            /\ food = << >>
            /\ draws = 0
            /\ foods = 0
    /\ score = 0
    /\ gameLoop = NoHandle
    /\ timers = << >>
    /\ gameSpeed = mediumSpeed
    /\ isGameRunning = FALSE
    /\ isPaused = FALSE
    /\ overlay = "ready"
    /\ ticks = 0
    /\ turns = 0
    /\ sounds = << >>
    /\ writes = 0
    /\ pc = "idle"
    /\ newFood = << >>
    /\ todoInit

SpecStore == InitStore /\ [][Next]_vars

----------------------------------------------------------------------------
(* The eating tick, with the loop of generateFood() followed step by step *)

\* the cells Math.floor(Math.random() * tileCount) can give for x and y
Grid == (0..(tileCount - 1)) \X (0..(tileCount - 1))

\* the k-th cell of the path that sweeps the rows of the grid alternately
\* left to right and right to left
PathCell(k) ==
    LET y == (k - 1) \div tileCount
        r == (k - 1) % tileCount
    IN  <<IF y % 2 = 0 THEN r ELSE tileCount - 1 - r, y>>

\* the snake of length n lying on that path, head first
PathSnake(n) == [i \in 1..n |-> PathCell(n - i + 1)]

\* snake lengths before the eating tick: the length after resetGame(), and
\* the lengths that leave one free cell and none once the food is eaten
FoodLengths == {Len(InitialSnake), tileCount * tileCount - 2, tileCount * tileCount - 1}

\* a running game whose snake has eaten n - 3 times and has the food in front
\* of its head: the state before the update() call that eats it
FoodInit ==
    \E n \in FoodLengths :
        /\ snake = PathSnake(n)
        /\ food = PathCell(n + 1)
        /\ direction = <<PathCell(n + 1)[1] - PathCell(n)[1],
                         PathCell(n + 1)[2] - PathCell(n)[2]>>
        /\ nextDirection = direction
        /\ score = (n - Len(InitialSnake)) * scoreIncrement
        /\ sounds = [i \in 1..(n - 2) |-> IF i = 1 THEN "start" ELSE "eat"]
        /\ foods = n - 2
        /\ ticks = n
        /\ draws = n
        /\ turns = 0
        /\ writes = 0
        /\ stored = NoItem
        /\ highScore = 0
        /\ gameLoop = newHandle(<< >>)
        /\ timers = setInterval(<< >>, mediumSpeed)
        /\ gameSpeed = mediumSpeed
        /\ isGameRunning = TRUE
        /\ isPaused = FALSE
        /\ overlay = "hidden"
        /\ constructed = TRUE
        /\ pc = "idle"
        /\ newFood = << >>
        /\ todoInit

\* update() on a head that lands on the food, up to its call of generateFood()
updateEats ==
    LET head == <<snake[1][1] + nextDirection[1], snake[1][2] + nextDirection[2]>> IN
    /\ pc = "idle"
    /\ \E h \in DOMAIN timers : TRUE
    /\ ~checkCollision(head, snake)
    /\ eatsFood(head, food)
    /\ direction' = nextDirection
    /\ snake' = moved(head, snake, food)
    /\ score' = score + scoreIncrement
    /\ sounds' = playSound(sounds, "eat")
    /\ ticks' = ticks + 1
    /\ turns' = 0
    /\ pc' = "draw"
    /\ UNCHANGED <<food, nextDirection, highScore, stored, gameLoop, timers,
                   gameSpeed, isGameRunning, isPaused, overlay, writes, draws,
                   foods, constructed, newFood>>
    /\ UNCHANGED todoVars

\* the body of the do-while: newFood = { x: ..., y: ... } with a cell drawn
drawNewFood ==
    /\ pc = "draw"
    /\ newFood' \in Grid
    /\ pc' = "test"
    /\ UNCHANGED <<snake, food, direction, nextDirection, score, highScore,
                   stored, gameLoop, timers, gameSpeed, isGameRunning, isPaused,
                   overlay, ticks, turns, sounds, writes, draws, foods,
                   constructed>>
    /\ UNCHANGED todoVars

\* a draw that gives a cell off the snake
drawFree == drawNewFood /\ ~isSnakeOnPosition(snake, newFood')

\* while (this.isSnakeOnPosition(newFood.x, newFood.y)); this.food = newFood.
\* The next iteration assigns newFood before anything reads it, so the
\* rejected cell is dropped from the state.
testNewFood ==
    /\ pc = "test"
    /\ IF isSnakeOnPosition(snake, newFood)
       THEN /\ pc' = "draw"
            /\ newFood' = << >>
            /\ UNCHANGED <<food, foods>>
       ELSE /\ food' = newFood
            /\ foods' = foods + 1
            /\ pc' = "done"
            /\ UNCHANGED newFood
    /\ UNCHANGED <<snake, direction, nextDirection, score, highScore, stored,
                   gameLoop, timers, gameSpeed, isGameRunning, isPaused, overlay,
                   ticks, turns, sounds, writes, draws, constructed>>
    /\ UNCHANGED todoVars

\* generateFood() has returned: update() ends with draw()
updateReturns ==
    /\ pc = "done"
    /\ draws' = draws + 1
    /\ pc' = "idle"
    /\ newFood' = << >>
    /\ UNCHANGED <<snake, food, direction, nextDirection, score, highScore,
                   stored, gameLoop, timers, gameSpeed, isGameRunning, isPaused,
                   overlay, ticks, turns, sounds, writes, foods, constructed>>
    /\ UNCHANGED todoVars

\* one thread runs the handlers, so while update() is in the loop no other
\* handler runs
FoodNext ==
    \/ updateEats
    \/ drawNewFood
    \/ testNewFood
    \/ updateReturns

\* the statements of the running tick are executed one after the other, and
\* independent uniform draws give a free cell again and again
SpecFood ==
    /\ FoodInit
    /\ [][FoodNext]_vars
    /\ WF_vars(updateEats)
    /\ WF_vars(drawNewFood)
    /\ WF_vars(testNewFood)
    /\ WF_vars(updateReturns)
    /\ SF_vars(drawFree)

----------------------------------------------------------------------------
(* A running game left alone: only the interval fires *)

\* coordinates of the heads the quiet games start from: both borders and the middle
QuietCoords == {0, tileCount \div 2, tileCount - 1}

\* the snake of length 3 with head h that has been moving straight in direction d
StraightSnake(h, d) == [i \in 1..3 |-> <<h[1] - (i - 1) * d[1], h[2] - (i - 1) * d[2]>>]

\* a snake that has eaten twice and turned back next to its own body
BentSnake == << <<10, 11>>, <<11, 11>>, <<11, 10>>, <<10, 10>>, <<9, 10>> >>

\* the snakes, with their current direction, the quiet games start from
QuietSnakes ==
    { <<StraightSnake(h, d), d>> : h \in QuietCoords \X QuietCoords, d \in Directions }
        \cup { <<BentSnake, <<-1, 0>> >> }

\* a running game after its last command: the snake lies in the grid, the
\* pending direction is the current one or a turn accepted against it, the
\* food is off the snake and one interval is active.  Here ticks counts the
\* update() calls since that last command.
InitQuiet ==
    \E sd \in QuietSnakes :
        /\ snake = sd[1]
        /\ \A i \in 1..Len(snake) : ~checkCollision(snake[i], << >>)
        /\ direction = sd[2]
        /\ nextDirection \in { d \in Directions : d = direction \/ ~rejects(d) }
        /\ food \in generateFood(snake)
        /\ score = (Len(snake) - Len(InitialSnake)) * scoreIncrement
        /\ sounds = [i \in 1..(Len(snake) - 2) |-> IF i = 1 THEN "start" ELSE "eat"]
        /\ foods = Len(snake) - 2
        /\ ticks = 0
        /\ draws = 0
        /\ turns = 0
        /\ writes = 0
        /\ stored = NoItem
        /\ highScore = 0
        /\ gameLoop = newHandle(<< >>)
        /\ timers = setInterval(<< >>, mediumSpeed)
        /\ gameSpeed = mediumSpeed
        /\ isGameRunning = TRUE
        /\ isPaused = FALSE
        /\ overlay = "hidden"
        /\ constructed = TRUE
        /\ pc = "idle"
        /\ newFood = << >>
        /\ todoInit

\* the active interval fires its callback, () => this.update()
QuietTick ==
    /\ Bound
    /\ \E h \in DOMAIN timers : update

\* an interval that is not cleared keeps firing
SpecQuiet == InitQuiet /\ [][QuietTick]_vars /\ WF_vars(QuietTick)

----------------------------------------------------------------------------
(* The to-do page: handlers, timeouts, clock, reload *)

\* what the task input and the edit input can hold when a handler reads them
\* (value.trim()): nothing, or a text
TaskTexts == {"", "a"}

\* the index tasks.find(t => t.id === taskId) stops at, 0 when it finds none
find(ts, taskId) ==
    IF \E i \in 1..Len(ts) : ts[i].id = taskId
    THEN CHOOSE i \in 1..Len(ts) :
             ts[i].id = taskId /\ \A j \in 1..(i - 1) : ts[j].id # taskId
    ELSE 0

\* tasks.filter(t => t.id !== taskId)
withoutId(ts, taskId) == SelectSeq(ts, LAMBDA t : t.id # taskId)

\* tasks.filter(task => task.date !== date)
withoutDate(ts, date) == SelectSeq(ts, LAMBDA t : t.date # date)

\* the ids of the tasks of a list
idsOf(ts) == { ts[i].id : i \in 1..Len(ts) }

\* addTask(): the new task takes Date.now() as id and is pushed and saved
addTask(taskText) ==
    IF taskText = ""
    THEN UNCHANGED vars
    ELSE /\ Len(tasks) < MaxTasks
         /\ tasks' = Append(tasks, [id |-> now,
                                    text |-> taskText,
                                    completed |-> FALSE,
                                    isEditing |-> FALSE,
                                    date |-> getCurrentDate(now)])
         /\ storedTasks' = saveTasks(tasks')
         /\ UNCHANGED <<now, timeouts, currentActionDate, requested>>
         /\ UNCHANGED gameVars

\* toggleTaskStatus(taskId)
toggleTaskStatus(taskId) ==
    IF find(tasks, taskId) = 0
    THEN UNCHANGED vars
    ELSE /\ tasks' = [tasks EXCEPT ![find(tasks, taskId)].completed = ~@]
         /\ storedTasks' = saveTasks(tasks')
         /\ UNCHANGED <<now, timeouts, currentActionDate, requested>>
         /\ UNCHANGED gameVars

\* deleteTask() removing the task at once, without the timeout
deleteTask_Immediate(taskId) ==
    IF taskId \notin idsOf(tasks)
    THEN UNCHANGED vars
    ELSE /\ tasks' = withoutId(tasks, taskId)
         /\ storedTasks' = saveTasks(tasks')
         /\ requested' = requested \cup {taskId}
         /\ UNCHANGED <<now, timeouts, currentActionDate>>
         /\ UNCHANGED gameVars

\* deleteTask(taskId): when the list shows an element with that id, the
\* removal is left to a timeout
deleteTask(taskId) ==
    IF taskId \notin idsOf(tasks)
    THEN UNCHANGED vars
    ELSE /\ Len(timeouts) < MaxTimeouts
         /\ timeouts' = Append(timeouts, [kind |-> "delete", id |-> taskId,
                                          due |-> now + removeDelay])
         /\ requested' = requested \cup {taskId}
         /\ UNCHANGED <<tasks, storedTasks, now, currentActionDate>>
         /\ UNCHANGED gameVars

\* editTask() without tasks.forEach(t => t.isEditing = false)
editTask_KeepOthers(taskId) ==
    IF find(tasks, taskId) = 0
    THEN UNCHANGED vars
    ELSE /\ tasks' = [tasks EXCEPT ![find(tasks, taskId)].isEditing = TRUE]
         /\ UNCHANGED <<storedTasks, now, timeouts, currentActionDate, requested>>
         /\ UNCHANGED gameVars

\* editTask(taskId): every flag is cleared, then the found task's is set;
\* nothing is saved.  The 100 ms timeout only moves the focus.
editTask(taskId) ==
    IF find(tasks, taskId) = 0
    THEN UNCHANGED vars
    ELSE /\ tasks' = [j \in 1..Len(tasks) |->
                         [tasks[j] EXCEPT !.isEditing = (j = find(tasks, taskId))]]
         /\ UNCHANGED <<storedTasks, now, timeouts, currentActionDate, requested>>
         /\ UNCHANGED gameVars

\* saveEdit(taskId) reading newText from the edit input, which the list
\* shows only for a task in edit mode
saveEdit(taskId, newText) ==
    IF \/ find(tasks, taskId) = 0
       \/ ~(\E j \in 1..Len(tasks) : tasks[j].id = taskId /\ tasks[j].isEditing)
       \/ newText = ""
    THEN UNCHANGED vars
    ELSE /\ tasks' = [tasks EXCEPT ![find(tasks, taskId)].text = newText,
                                   ![find(tasks, taskId)].isEditing = FALSE]
         /\ storedTasks' = saveTasks(tasks')
         /\ UNCHANGED <<now, timeouts, currentActionDate, requested>>
         /\ UNCHANGED gameVars

\* cancelEdit(taskId): nothing is saved
cancelEdit(taskId) ==
    IF find(tasks, taskId) = 0
    THEN UNCHANGED vars
    ELSE /\ tasks' = [tasks EXCEPT ![find(tasks, taskId)].isEditing = FALSE]
         /\ UNCHANGED <<storedTasks, now, timeouts, currentActionDate, requested>>
         /\ UNCHANGED gameVars

\* showConfirmDialog(date)
showConfirmDialog(date) ==
    /\ currentActionDate' = date
    /\ UNCHANGED <<tasks, storedTasks, now, timeouts, requested>>
    /\ UNCHANGED gameVars

\* closeConfirmDialog()
closeConfirmDialog ==
    /\ currentActionDate' = NoAction
    /\ UNCHANGED <<tasks, storedTasks, now, timeouts, requested>>
    /\ UNCHANGED gameVars

\* clearAllTasks(): opens the dialog for 'all' unless the list is empty
clearAllTasks ==
    IF tasks = << >>
    THEN UNCHANGED vars
    ELSE /\ currentActionDate' = AllTasks
         /\ UNCHANGED <<tasks, storedTasks, now, timeouts, requested>>
         /\ UNCHANGED gameVars

\* clearAllBtn.disabled: set by the confirmed clear-all until its timeout runs
clearAllBtnDisabled == \E i \in 1..Len(timeouts) : timeouts[i].kind = "clear"

\* confirmAction(): for 'all' the removal is left to a timeout, for a date
\* clearTasksByDate(date) removes and saves at once; then closeConfirmDialog()
confirmAction ==
    /\ IF currentActionDate = NoAction
       THEN UNCHANGED <<tasks, storedTasks, timeouts, requested>>
       ELSE IF currentActionDate = AllTasks
       THEN /\ Len(timeouts) < MaxTimeouts
            /\ timeouts' = Append(timeouts, [kind |-> "clear", id |-> NoAction,
                                             due |-> now + removeDelay])
            /\ requested' = requested \cup idsOf(tasks)
            /\ UNCHANGED <<tasks, storedTasks>>
       ELSE /\ tasks' = withoutDate(tasks, currentActionDate)
            /\ storedTasks' = saveTasks(tasks')
            /\ UNCHANGED <<timeouts, requested>>
    /\ currentActionDate' = NoAction
    /\ UNCHANGED now
    /\ UNCHANGED gameVars

\* the callback of the oldest removal timeout, once its delay has passed
\* (timeouts of equal delay run in the order they were set): the task, or
\* every task, is removed and the list saved
timeout ==
    /\ timeouts # << >>
    /\ Head(timeouts).due <= now
    /\ tasks' = IF Head(timeouts).kind = "clear"
                THEN << >>
                ELSE withoutId(tasks, Head(timeouts).id)
    /\ storedTasks' = saveTasks(tasks')
    /\ timeouts' = Tail(timeouts)
    /\ UNCHANGED <<now, currentActionDate, requested>>
    /\ UNCHANGED gameVars

\* the clock moves on by one ms or by a removal delay
advance(dt) ==
    /\ \/ dt = 1 /\ now % removeDelay < MaxMs
       \/ dt = removeDelay /\ now \div removeDelay < MaxDelays
    /\ now' = now + dt
    /\ UNCHANGED <<tasks, storedTasks, timeouts, currentActionDate, requested>>
    /\ UNCHANGED gameVars

\* the page is loaded again: init() reads the saved list; the timeouts and
\* the dialog of the page that was left are gone
reload ==
    /\ tasks' = loadTasks(storedTasks)
    /\ timeouts' = << >>
    /\ currentActionDate' = NoAction
    /\ requested' = {}
    /\ UNCHANGED <<storedTasks, now>>
    /\ UNCHANGED gameVars

AddTask == \E taskText \in TaskTexts : addTask(taskText)
ToggleTaskStatus == \E taskId \in idsOf(tasks) : toggleTaskStatus(taskId)
DeleteTask == \E taskId \in idsOf(tasks) : deleteTask(taskId)
EditTask == \E taskId \in idsOf(tasks) : editTask(taskId)
SaveEdit == \E taskId \in idsOf(tasks), newText \in TaskTexts : saveEdit(taskId, newText)
CancelEdit == \E taskId \in idsOf(tasks) : cancelEdit(taskId)
ShowConfirmDialog == \E i \in 1..Len(tasks) : showConfirmDialog(tasks[i].date)
CloseConfirmDialog == closeConfirmDialog
ClearAllTasks == ~clearAllBtnDisabled /\ clearAllTasks
ConfirmAction == confirmAction
Timeout == timeout
Advance == \E dt \in {1, removeDelay} : advance(dt)
Reload == reload

TodoNext ==
    \/ AddTask
    \/ ToggleTaskStatus
    \/ DeleteTask
    \/ EditTask
    \/ SaveEdit
    \/ CancelEdit
    \/ ShowConfirmDialog
    \/ CloseConfirmDialog
    \/ ClearAllTasks
    \/ ConfirmAction
    \/ Timeout
    \/ Advance
    \/ Reload

\* the to-do page loaded with nothing stored; the game, on its own page,
\* stays in one of its first states
InitTodo == Init /\ food = <<0, 0>>

SpecTodo == InitTodo /\ [][TodoNext]_vars

----------------------------------------------------------------------------
(* Properties *)

\* the head update() computes in the current state: head + pending direction,
\* the direction the tick commits
Candidate == <<snake[1][1] + nextDirection[1], snake[1][2] + nextDirection[2]>>

OutOfBounds(c) == c[1] < 0 \/ c[1] >= tileCount \/ c[2] < 0 \/ c[2] >= tileCount

OnSnake(c) == \E i \in 1..Len(snake) : snake[i] = c

\* the step is one call of update()
IsTick == ticks' = ticks + 1

\* C1: in every reachable state the food cell is not a cell of the snake.
C1_FoodNotOnSnake == \A i \in 1..Len(snake) : snake[i] # food

\* a game in which the food next to the head was eaten and new food was drawn
C1_Witness == Len(snake) = 4 /\ snake[1] = <<11, 10>> /\ food = <<11, 11>>

\* C2: at most one interval is active, and one is active exactly when the
\* game is running and not paused (and then it is the one gameLoop holds).
C2_OneScheduleIffRunning ==
    /\ Cardinality(DOMAIN timers) <= 1
    /\ (Cardinality(DOMAIN timers) = 1) <=> (isGameRunning /\ ~isPaused)
    /\ (isGameRunning /\ ~isPaused) => DOMAIN timers = {gameLoop}

\* running at the speed set by setDifficulty('hard') after some ticks
C2_Witness ==
    /\ isGameRunning /\ ~isPaused
    /\ ticks > 0
    /\ gameSpeed = hardSpeed
    /\ timers = (gameLoop :> hardSpeed)

\* C3: update() never runs while the lifecycle is Idle, Paused or GameOver,
\* and snake, food and score change in such a state only in a step that
\* leaves it for Running.
C3_NoTickUnlessRunning ==
    [][ (Lifecycle # "Running") =>
          /\ ~IsTick
          /\ (Lifecycle' # "Running" => UNCHANGED <<snake, food, score>>) ]_vars

\* paused in the middle of a game
C3_Witness == Lifecycle = "Paused" /\ ticks > 0

\* C4: a tick whose candidate head is outside the grid ends the game and
\* leaves snake, score and food as they were, with no interval left active.
C4_WallHitEndsGame ==
    [][ (IsTick /\ OutOfBounds(Candidate)) =>
          /\ Lifecycle' = "GameOver"
          /\ snake' = snake
          /\ score' = score
          /\ food' = food
          /\ DOMAIN timers' = {} ]_vars

\* game over with the head on the last column and the committed direction
\* pointing out of the grid
C4_Witness ==
    /\ Lifecycle = "GameOver"
    /\ snake[1][1] = tileCount - 1
    /\ direction = <<1, 0>>

\* C5: a tick whose candidate head is a cell of the snake, the tail cell
\* included, ends the game and leaves the snake as it was.
C5_SelfHitEndsGame ==
    [][ (IsTick /\ OnSnake(Candidate)) =>
          /\ Lifecycle' = "GameOver"
          /\ snake' = snake ]_vars

\* game over with the committed direction pointing from the head to the tail cell
C5_Witness ==
    /\ Lifecycle = "GameOver"
    /\ <<snake[1][1] + direction[1], snake[1][2] + direction[2]>> = snake[Len(snake)]

\* C6: a tick whose candidate head is in the grid and off the snake yields
\* the candidate followed by the old snake when the candidate is the food
\* cell (length + 1), and followed by the old snake without its tail
\* otherwise (same length).
C6_MoveKeepsOrGrowsLength ==
    [][ (IsTick /\ ~OutOfBounds(Candidate) /\ ~OnSnake(Candidate)) =>
          IF Candidate = food
          THEN /\ Len(snake') = Len(snake) + 1
               /\ snake' = <<Candidate>> \o snake
          ELSE /\ Len(snake') = Len(snake)
               /\ snake' = <<Candidate>> \o SubSeq(snake, 1, Len(snake) - 1) ]_vars

\* the first tick ate the food at (11,10)
C6_Witness ==
    /\ ticks = 1
    /\ snake = << <<11, 10>>, <<10, 10>>, <<9, 10>>, <<8, 10>> >>
    /\ score = 10

\* C7: in every reachable state the score is 10 times the number of cells
\* the snake has grown beyond its initial three.
C7_ScoreTracksLength == score = 10 * (Len(snake) - 3)

\* a game that ended after two foods were eaten
C7_Witness == Lifecycle = "GameOver" /\ score = 20 /\ Len(snake) = 5

\* C8 as stated: in GameOver, start, pause, resume, a direction request and
\* a speed change all leave the lifecycle in GameOver.
C8_OnlyRestartLeavesGameOver ==
    [][ (/\ Lifecycle = "GameOver"
         /\ \/ startGame \/ pauseGame \/ resumeGame
            \/ ChangeDirection \/ SetDifficulty)
        => Lifecycle' = "GameOver" ]_vars

\* C8 as amended: in GameOver, pause, resume, a direction request and a
\* speed change leave the lifecycle in GameOver; every step from GameOver
\* to Running is a start or a restart, and both lead to Running.
C8_StartOrRestartLeavesGameOver ==
    [][ /\ (/\ Lifecycle = "GameOver"
            /\ \/ pauseGame \/ resumeGame \/ ChangeDirection \/ SetDifficulty)
           => Lifecycle' = "GameOver"
        /\ (Lifecycle = "GameOver" /\ Lifecycle' # "GameOver")
           => (Lifecycle' = "Running" /\ (startGame \/ restartGame)) ]_vars

\* a new game, not yet ticked, started after a game that ended with a new high score
C8_Witness == Lifecycle = "Running" /\ ticks = 0 /\ highScore > 0

\* C9: a direction request on the axis of the current direction (the
\* current direction itself included) leaves pending unchanged, and a
\* perpendicular request sets pending to the proposal.
C9_RequestAxisRule ==
    [][ \A d \in Directions :
          changeDirection(d) =>
            IF (d[1] # 0) = (direction[1] # 0)
            THEN nextDirection' = nextDirection
            ELSE nextDirection' = d ]_vars

\* running to the right with an accepted vertical proposal pending
C9_Witness ==
    /\ isGameRunning /\ ~isPaused
    /\ direction = <<1, 0>> /\ nextDirection = <<0, 1>> /\ turns > 0

\* C10: the pending direction is never the negation of the current one, and
\* no tick commits the negation of the direction that was current before it.
C10_NoReversal ==
    /\ nextDirection # Neg(direction)
    /\ [][ /\ nextDirection' # Neg(direction')
           /\ IsTick => direction' # Neg(direction) ]_vars

\* a running game in which two requests were accepted before the first tick
C10_Witness == ticks = 0 /\ turns = 2 /\ nextDirection = <<0, -1>> /\ isGameRunning

\* the step is the reset of the board by start() or restart()
IsReset == startGame \/ restartGame

\* the number of 'eat' calls on a log of playSound calls
EatCount(log) == Cardinality({ i \in 1..Len(log) : log[i] = "eat" })

\* C11 as stated: the current direction changes only in a tick, where it
\* becomes the pending direction.
C11_DirectionChangesOnlyInTick ==
    [][ (direction' # direction) => (IsTick /\ direction' = nextDirection) ]_vars

\* C11 as amended: the current direction changes only in a tick, where it
\* becomes the pending direction, or in the reset of start()/restart(),
\* which sets current and pending to (1,0); a direction request never
\* changes the current direction, and an accepted one overwrites pending
\* whatever was pending, so a tick commits the last accepted request.
C11_DirectionChangesInTickOrReset ==
    [][ /\ IsTick => direction' = nextDirection
        /\ (direction' # direction) =>
             \/ IsTick
             \/ (IsReset /\ direction' = InitialDirection
                         /\ nextDirection' = InitialDirection)
        /\ \A d \in Directions :
             changeDirection(d) =>
               /\ direction' = direction
               /\ ~rejects(d) => nextDirection' = d ]_vars

\* the first tick of a game committed a turn downwards
C11_Witness ==
    /\ ticks = 1
    /\ direction = <<0, 1>>
    /\ snake[1] = <<10, 11>>

\* C12: the tick that enters GameOver with score above highScore sets
\* highScore and the stored item to score with one setItem call; with score
\* at or below highScore it leaves highScore and the item alone and makes
\* no setItem call.
C12_HighScoreAtGameOver ==
    [][ (IsTick /\ Lifecycle' = "GameOver") =>
          IF score > highScore
          THEN /\ highScore' = score
               /\ stored' = score
               /\ writes = 0
               /\ writes' = 1
          ELSE /\ highScore' = highScore
               /\ stored' = stored
               /\ writes' = writes ]_vars

\* a game that ended with the first record, written once
C12_Witness ==
    /\ Lifecycle = "GameOver"
    /\ score = 10
    /\ highScore = 10
    /\ stored = 10
    /\ writes = 1

\* C13: highScore and the stored item change, and setItem is called, only
\* in the tick that takes the lifecycle from Running to GameOver.
C13_HighScoreOnlyAtGameOver ==
    [][ (highScore' # highScore \/ stored' # stored \/ writes' > writes) =>
          (IsTick /\ Lifecycle = "Running" /\ Lifecycle' = "GameOver") ]_vars

\* a later game whose score has passed the record while the record and the
\* stored item still hold the value of the game that ended
C13_Witness ==
    /\ Lifecycle = "Running"
    /\ score = 20
    /\ highScore = 10
    /\ stored = 10

\* C14: start() in Idle resets snake, both directions, score, draws a food
\* cell off the snake, calls playSound('start') once, and leaves the game
\* Running with one interval armed at gameSpeed.
C14_StartFromIdle ==
    [][ (Lifecycle = "Idle" /\ startGame) =>
          /\ snake' = InitialSnake
          /\ direction' = <<1, 0>>
          /\ nextDirection' = <<1, 0>>
          /\ score' = 0
          /\ \A i \in 1..Len(snake') : snake'[i] # food'
          /\ sounds' = <<"start">>
          /\ Lifecycle' = "Running"
          /\ gameSpeed' = gameSpeed
          /\ timers' = (gameLoop' :> gameSpeed) ]_vars

\* the first game, just started: nothing stored yet, one 'start' sound
C14_Witness ==
    /\ Lifecycle = "Running"
    /\ ticks = 0
    /\ snake = InitialSnake
    /\ sounds = <<"start">>
    /\ stored = NoItem
    /\ highScore = 0

\* C15: restart() in Running, Paused or GameOver ends in Running with the
\* initial snake, direction (1,0), score 0, food off the snake and exactly
\* one active interval, the new one at gameSpeed.
C15_RestartResets ==
    [][ (Lifecycle \in {"Running", "Paused", "GameOver"} /\ restartGame) =>
          /\ Lifecycle' = "Running"
          /\ snake' = InitialSnake
          /\ direction' = <<1, 0>>
          /\ nextDirection' = <<1, 0>>
          /\ score' = 0
          /\ \A i \in 1..Len(snake') : snake'[i] # food'
          /\ Cardinality(DOMAIN timers') = 1
          /\ timers' = (gameLoop' :> gameSpeed) ]_vars

\* a fresh board after a game that ended with two foods eaten
C15_Witness ==
    /\ Lifecycle = "Running"
    /\ ticks = 0
    /\ snake = InitialSnake
    /\ score = 0
    /\ highScore = 20

\* C16: start() while the game is running, paused or not, changes nothing:
\* board, directions, score, flags, intervals and sound log stay as they are.
C16_StartWhileRunningIsNoOp ==
    [][ (isGameRunning /\ startGame) =>
          UNCHANGED <<snake, food, direction, nextDirection, score, isGameRunning,
                      isPaused, overlay, gameLoop, timers, gameSpeed, sounds,
                      highScore, stored>> ]_vars

\* a paused game in progress, whose log still holds its single 'start'
C16_Witness ==
    /\ isGameRunning
    /\ isPaused
    /\ sounds = <<"start", "eat">>

\* C17: pause() outside Running and resume() outside Paused change nothing.
C17_PauseResumeNoOps ==
    [][ /\ (Lifecycle # "Running" /\ pauseGame) => UNCHANGED vars
        /\ (Lifecycle # "Paused" /\ resumeGame) => UNCHANGED vars ]_vars

\* paused after two ticks, no interval active
C17_Witness ==
    /\ Lifecycle = "Paused"
    /\ ticks = 2
    /\ DOMAIN timers = {}

\* C18: pause() in Running leads to Paused with no interval active, and
\* resume() in Paused leads to Running with one interval at gameSpeed; both
\* leave snake, food, score and the two directions as they were.
C18_PauseResumeKeepBoard ==
    [][ /\ (Lifecycle = "Running" /\ pauseGame) =>
             /\ Lifecycle' = "Paused"
             /\ DOMAIN timers' = {}
             /\ UNCHANGED <<snake, food, score, direction, nextDirection>>
        /\ (Lifecycle = "Paused" /\ resumeGame) =>
             /\ Lifecycle' = "Running"
             /\ timers' = (gameLoop' :> gameSpeed)
             /\ UNCHANGED <<snake, food, score, direction, nextDirection,
                            gameSpeed>> ]_vars

\* paused with a grown snake and a turn pending
C18_Witness ==
    /\ Lifecycle = "Paused"
    /\ score = 10
    /\ nextDirection # direction

\* the active interval, if the game is Running, is the one at gameSpeed
SpeedInForce == (Lifecycle = "Running") => timers = (gameLoop :> gameSpeed)

\* C19: setDifficulty sets gameSpeed; in Running it leaves exactly one
\* interval, at the new speed; in Idle, Paused and GameOver it arms none;
\* and whenever the game is Running the active interval is at gameSpeed, so
\* a speed set outside Running is the interval of the next start or resume.
C19_SpeedChange ==
    /\ SpeedInForce
    /\ [][ /\ SpeedInForce'
           /\ \A l \in Difficulties :
                setDifficulty(l) =>
                  /\ gameSpeed' = speedOf(l)
                  /\ Lifecycle' = Lifecycle
                  /\ IF Lifecycle = "Running"
                     THEN timers' = (gameLoop' :> speedOf(l))
                     ELSE DOMAIN timers' = {} ]_vars

\* running on the 'easy' interval in the middle of a game
C19_Witness ==
    /\ Lifecycle = "Running"
    /\ ticks > 0
    /\ gameSpeed = easySpeed
    /\ timers = (gameLoop :> easySpeed)

\* C20: a tick whose candidate head is the food cell adds 10 to the score,
\* calls playSound('eat') once and draws food off the grown snake; every
\* other tick leaves score, food and the number of 'eat' calls as they were.
C20_EatingTick ==
    [][ IsTick =>
          IF Candidate = food
          THEN /\ score' = score + 10
               /\ sounds' = Append(sounds, "eat")
               /\ Len(snake') = Len(snake) + 1
               /\ \A i \in 1..Len(snake') : snake'[i] # food'
          ELSE /\ score' = score
               /\ food' = food
               /\ EatCount(sounds') = EatCount(sounds) ]_vars

\* the first two ticks of a game both ate
C20_Witness ==
    /\ ticks = 2
    /\ score = 20
    /\ sounds = <<"start", "eat", "eat">>

\* C21: draw() is called after every tick without collision, and after
\* every start() and restart(), so the reset board is drawn before the
\* first tick of the new game.
C21_DrawAfterTickAndReset ==
    [][ /\ (IsTick /\ Lifecycle' # "GameOver") => draws' = draws + 1
        /\ IsReset => draws' > 0 ]_vars

\* C22: the cells of the snake are pairwise distinct.
C22_SnakeCellsDistinct ==
    \A i, j \in 1..Len(snake) : i # j => snake[i] # snake[j]

\* a grown snake bent twice, its head next to its own body
C22_Witness ==
    /\ Len(snake) = 5
    /\ snake[1] = <<10, 11>>
    /\ snake[3] = <<11, 10>>

\* C24: isPaused implies isGameRunning.
C24_PausedImpliesRunning == isPaused => isGameRunning

\* paused at the speed chosen with setDifficulty('hard')
C24_Witness == isPaused /\ isGameRunning /\ gameSpeed = hardSpeed

\* C25: generateFood() is called once by every reset of start()/restart()
\* and once by every tick that eats; any other step leaves the count of
\* its calls and the food cell as they were.
C25_FoodGeneratedOnResetAndEat ==
    [][ /\ IsReset => foods' = 1
        /\ (IsTick /\ Candidate = food) => foods' = foods + 1
        /\ (~IsReset /\ ~(IsTick /\ Candidate = food)) =>
             (foods' = foods /\ food' = food) ]_vars

\* three calls in one game: the reset and two meals, then ticks that ate nothing
C25_Witness == foods = 3 /\ score = 20 /\ ticks = 4

\* a unit vector along one axis
Cardinal(d) ==
    /\ d[1] \in {-1, 0, 1}
    /\ d[2] \in {-1, 0, 1}
    /\ (d[1] = 0) # (d[2] = 0)

\* C27: the current and the pending direction are unit vectors along one axis.
C27_DirectionsCardinal == Cardinal(direction) /\ Cardinal(nextDirection)

\* moving up with a turn to the left pending
C27_Witness == direction = <<0, -1>> /\ nextDirection = <<-1, 0>>

\* C28: the playSound calls of a game are one 'start' first, then only
\* 'eat', with a final 'gameover' exactly when the game is over; before the
\* first start there is none.
C28_SoundOrder ==
    /\ (Lifecycle = "Idle") => sounds = << >>
    /\ (Lifecycle # "Idle") => (Len(sounds) >= 1 /\ sounds[1] = "start")
    /\ \A i \in 2..Len(sounds) :
         \/ sounds[i] = "eat"
         \/ (i = Len(sounds) /\ sounds[i] = "gameover")
    /\ (Lifecycle = "GameOver") <=>
         (Len(sounds) >= 1 /\ sounds[Len(sounds)] = "gameover")
    /\ EatCount(sounds) * 10 = score

\* a finished game with one meal
C28_Witness == sounds = <<"start", "eat", "gameover">>

\* C30: every snake cell is inside the grid and consecutive cells differ by
\* one in exactly one coordinate.
C30_SnakeInGridAndConnected ==
    /\ \A i \in 1..Len(snake) : ~OutOfBounds(snake[i])
    /\ \A i \in 1..(Len(snake) - 1) :
         \/ (snake[i][1] = snake[i + 1][1]
             /\ snake[i][2] - snake[i + 1][2] \in {-1, 1})
         \/ (snake[i][2] = snake[i + 1][2]
             /\ snake[i][1] - snake[i + 1][1] \in {-1, 1})

\* a running snake with its head on the last column, turned downwards there
C30_Witness ==
    /\ Lifecycle = "Running"
    /\ snake[1][1] = tileCount - 1
    /\ snake[1][2] = 11

\* C23 as stated: when the read of the stored high score fails or gives no
\* parsable value, the game is constructed and its high score is 0.
C23_StoreFailureDefaultsToZero ==
    (stored \in {NoItem, Unparsable, Unavailable}) => (constructed /\ highScore = 0)

\* a cell of the grid is not on the snake
FreeCellExists ==
    Cardinality({ snake[i] : i \in 1..Len(snake) } \cap Grid) < Cardinality(Grid)

\* C26: a call of generateFood() made while a cell of the grid is free
\* returns, with the food on a cell of the grid that is not on the snake.
C26_FoodGenerationTerminates ==
    (pc = "draw" /\ FreeCellExists)
        ~> (pc = "done" /\ ~OutOfBounds(food) /\ ~OnSnake(food))

\* the call returned with the only free cell of the grid
C26_Witness ==
    /\ pc = "done"
    /\ Len(snake) = tileCount * tileCount - 1
    /\ food = PathCell(tileCount * tileCount)

\* the snake lies on every cell of the grid
BoardFull == ~FreeCellExists

\* C29: once a tick has eaten the food and the grown snake covers the grid,
\* generateFood() stays in its loop: it never returns, update() never ends,
\* and the game stays running with no game over shown.
C29_FullBoardNeverReturns ==
    BoardFull =>
        /\ pc \in {"draw", "test"}
        /\ Lifecycle = "Running"
        /\ food = snake[1]

\* on the full board the loop has drawn the cell of the tail and tests it
C29_Witness ==
    /\ BoardFull
    /\ pc = "test"
    /\ newFood = snake[Len(snake)]

\* C31: a running game that receives no command is over after at most
\* tileCount calls of update(): the interval keeps firing, no call is made
\* beyond the tileCount-th, and the game does not stay running.
C31_QuietGameEnds ==
    /\ [](ticks <= tileCount)
    /\ []((ticks = tileCount) => (Lifecycle = "GameOver"))
    /\ (Lifecycle = "Running") ~> (Lifecycle = "GameOver")

\* the longest quiet game: the whole width crossed, ended by the tileCount-th call
C31_Witness == Lifecycle = "GameOver" /\ ticks = tileCount /\ snake[1][1] = tileCount - 1

\* C32: changeDirection() does not look at the lifecycle: in every state an
\* accepted proposal becomes the pending direction and leaves the current
\* one; resumeGame() keeps the pending direction and the next update() call
\* commits it; the keydown handler changes nothing on an arrow key unless
\* the game is running; start and restart set both directions to (1, 0).
C32_DirectionRequestOutsideRunning ==
    [][ /\ \A d \in Directions :
             (changeDirection(d) /\ ~rejects(d)) =>
                 (nextDirection' = d /\ direction' = direction)
        /\ \A key \in ArrowKeys :
             (keydown(key) /\ Lifecycle # "Running") => UNCHANGED vars
        /\ (nextDirection' # nextDirection /\ Lifecycle # "Running") =>
             (IsReset \/ \E d \in Directions : changeDirection(d))
        /\ (resumeGame /\ Lifecycle = "Paused") => nextDirection' = nextDirection
        /\ IsTick => direction' = nextDirection
        /\ IsReset => (direction' = InitialDirection /\ nextDirection' = InitialDirection)
      ]_vars

\* a paused game in which a click on the up button replaces the pending direction
C32_Witness ==
    /\ Lifecycle = "Paused"
    /\ nextDirection = <<1, 0>>
    /\ ENABLED (changeDirection(<<0, -1>>) /\ nextDirection' = <<0, -1>>)

\* C33: once the game is constructed its high score is the value read from
\* the stored item; no step lowers the high score; and a step into GameOver
\* ends with the high score at least the score.
C33_HighScoreMirrorsStore ==
    /\ [](constructed => highScore = readHighScore(stored))
    /\ [][highScore' >= highScore]_vars
    /\ [][(Lifecycle # "GameOver" /\ Lifecycle' = "GameOver") => highScore' >= score']_vars

\* a second game lost without a meal under a stored record of one meal
C33_Witness ==
    /\ Lifecycle = "GameOver"
    /\ score = 0
    /\ highScore = scoreIncrement
    /\ stored = scoreIncrement

\* C34: the tasks of the list have pairwise different ids, and the callback
\* of deleteTask() removes at most one task.
C34_TaskIdsDistinct ==
    /\ [](\A i, j \in 1..Len(tasks) : i # j => tasks[i].id # tasks[j].id)
    /\ [][(timeout /\ Head(timeouts).kind = "delete") => Len(tasks') >= Len(tasks) - 1]_vars

\* the tasks in edit mode
Editing == { i \in 1..Len(tasks) : tasks[i].isEditing }

\* C35: at most one task of the list has isEditing = true.
C35_AtMostOneEditing == Cardinality(Editing) <= 1

\* the second task is edited after the first, whose edit mode was saved with
\* the list by a change made meanwhile
C35_Witness ==
    /\ Len(tasks) = 2
    /\ Editing = {2}
    /\ storedTasks # NoTasks
    /\ Len(loadTasks(storedTasks)) = 2
    /\ loadTasks(storedTasks)[1].isEditing

\* C36: deleteTask() and the confirmed clear-all leave the list and the saved
\* list as they are and a task leaves the list only in a timeout callback
\* (or by the clear of one date, or with the page); the callback runs when
\* its delay has passed, removes from the list as it is then (every task for
\* clear-all, the tasks added meanwhile included) and saves it; and when the
\* last pending callback has run, no task whose removal was requested is left.
C36_RemovalInTimeout ==
    [][ /\ (\E taskId \in idsOf(tasks) : deleteTask(taskId)) =>
             UNCHANGED <<tasks, storedTasks>>
        /\ (confirmAction /\ currentActionDate = AllTasks) =>
             UNCHANGED <<tasks, storedTasks>>
        /\ (Len(tasks') < Len(tasks)) =>
             \/ timeout
             \/ (confirmAction /\ currentActionDate \notin {NoAction, AllTasks})
             \/ reload
        /\ timeout =>
             /\ now >= Head(timeouts).due
             /\ (Head(timeouts).kind = "clear") => tasks' = << >>
             /\ (Head(timeouts).kind = "delete") =>
                    tasks' = withoutId(tasks, Head(timeouts).id)
             /\ storedTasks' = saveTasks(tasks')
             /\ (timeouts' = << >>) => (idsOf(tasks') \cap requested = {})
      ]_vars

\* a clear-all is pending and the list holds a task added after it was confirmed
C36_Witness ==
    \E i \in 1..Len(timeouts), j \in 1..Len(tasks) :
        /\ timeouts[i].kind = "clear"
        /\ tasks[j].id > timeouts[i].due - removeDelay

=============================================================================
